---- MODULE Spec2Model ----
(***************************************************************************)
(* A model of data/build.py: CustomDataset, build_loader, build_dataset    *)
(* and build_transform.                                                    *)
(*                                                                         *)
(* Conventions.                                                            *)
(*  - A Python str that the code inspects character by character (the      *)
(*    augmentation preset, which is strip()ped) is a sequence of           *)
(*    one-character strings.                                               *)
(*  - A file or directory name is the sequence of its dot-separated        *)
(*    components: "a.jpg" is <<"a","jpg">>, "images" is <<"images">>,      *)
(*    ".jpg" is <<"","jpg">>.  A path is a sequence of names.              *)
(*  - A value that may be None is a record [none, val].                    *)
(*  - A call's outcome is a record whose field error is "" when the call   *)
(*    returned and the exception's class name when it raised.              *)
(*                                                                         *)
(* Spec runs build_loader statement by statement, and build_dataset and    *)
(* build_transform on their own, over configurations and directory trees.  *)
(* SpecCustom constructs a CustomDataset over a directory of image files   *)
(* and reads items from it.                                                *)
(***************************************************************************)
EXTENDS Integers, Sequences, FiniteSets, TLC

VARIABLES
    config,     \* the yacs configuration node handed to build_loader
    fs,         \* the file system: directory listings and file contents
    ext,        \* lengths of the datasets the external libraries load
    dist,       \* torch.distributed: this process's rank and the world size
    pc,         \* position of the process inside build_loader
    call,       \* the latest direct call of build_dataset / build_transform
    loader,     \* the locals of build_loader
    ds,         \* a CustomDataset object built by its constructor
    item        \* the outcome of the latest CustomDataset.__getitem__

vars == <<config, fs, ext, dist, pc, call, loader, ds, item>>

----------------------------------------------------------------------------
(* Bounds of the model *)

MaxWorld == 2       \* world sizes 1..MaxWorld
MaxLen == 3         \* external dataset lengths 0..MaxLen
Denom == 8          \* a normalized label value is k/Denom, k in 0..Denom

----------------------------------------------------------------------------
(* Python values *)

NoneVal == [none |-> TRUE, val |-> <<>>]

Some(v) == [none |-> FALSE, val |-> v]

IsSpace(c) == c \in {" ", "\t", "\n"}

RECURSIVE LStrip(_)
LStrip(s) == IF s # <<>> /\ IsSpace(Head(s)) THEN LStrip(Tail(s)) ELSE s

RECURSIVE RStrip(_)
RStrip(s) ==
    IF s # <<>> /\ IsSpace(s[Len(s)]) THEN RStrip(SubSeq(s, 1, Len(s) - 1)) ELSE s

\* mutant: whitespace is removed inside the string too
Strip_Everywhere(s) == SelectSeq(s, LAMBDA c : ~IsSpace(c))

\* str.strip()
Strip(s) == RStrip(LStrip(s))

\* os.path.join(path, name)
Join(path, name) == Append(path, name)

\* str.endswith('.' + e)
EndsWith(name, e) == Len(name) >= 2 /\ name[Len(name)] = e

\* os.path.splitext(name)[0]: the name without its last extension; leading
\* dots do not start an extension
SplitextStem(name) ==
    IF Len(name) >= 2 /\ \E i \in 1..(Len(name) - 1) : name[i] # ""
    THEN SubSeq(name, 1, Len(name) - 1)
    ELSE name

\* os.listdir(path)
DirExists(f, path) == path \in DOMAIN f.dirs

ListDir(f, path) == f.dirs[path]

\* mutant: stop is included
Arange_Inclusive(start, stop, step) ==
    LET n == IF stop >= start THEN (stop - start + step) \div step ELSE 0
    IN  [i \in 1..n |-> start + (i - 1) * step]

\* np.arange(start, stop, step) for step > 0
Arange(start, stop, step) ==
    LET n == IF stop > start THEN (stop - start + step - 1) \div step ELSE 0
    IN  [i \in 1..n |-> start + (i - 1) * step]

Range(s) == {s[i] : i \in 1..Len(s)}

----------------------------------------------------------------------------
(* Transforms: a Compose is the sequence of its operations *)

Op(name, arg) == [op |-> name, arg |-> arg]

Str_raug15 == <<"r", "a", "u", "g", "1", "5">>

Str_weak == <<"w", "e", "a", "k">>

Str_none == <<"n", "o", "n", "e">>

\* timm's create_transform(is_training=True): its first operation is the
\* random resized crop, the rest is opaque here
create_transform(size) ==
    << Op("RandomResizedCropAndInterpolation", size), Op("TimmTrainOps", 0) >>

build_transform(is_train, cfg) ==
    LET resize_im == cfg.IMG_SIZE > 32
        tail == << Op("ToTensor", 0), Op("Normalize", 0) >>
    IN
    IF is_train THEN
        IF cfg.PRESET.none THEN
            [error |-> "",
             transform |->
                IF resize_im THEN create_transform(cfg.IMG_SIZE)
                ELSE [create_transform(cfg.IMG_SIZE) EXCEPT
                         ![1] = Op("RandomCrop", cfg.IMG_SIZE)]]
        ELSE IF Strip(cfg.PRESET.val) = Str_raug15 THEN
            [error |-> "",
             transform |-> << Op("RandomResizedCrop", cfg.IMG_SIZE),
                              Op("RandomHorizontalFlip", 0),
                              Op("RandAugPolicy", 15) >> \o tail]
        ELSE IF Strip(cfg.PRESET.val) = Str_weak THEN
            [error |-> "",
             transform |-> << Op("RandomResizedCrop", cfg.IMG_SIZE),
                              Op("RandomHorizontalFlip", 0) >> \o tail]
        ELSE IF Strip(cfg.PRESET.val) = Str_none THEN
            [error |-> "",
             transform |-> << Op("Resize", cfg.IMG_SIZE),
                              Op("CenterCrop", cfg.IMG_SIZE) >> \o tail]
        ELSE [error |-> "ValueError", transform |-> <<>>]
    ELSE
        [error |-> "",
         transform |->
            (IF resize_im THEN
                IF cfg.TEST_CROP
                THEN << Op("Resize", (256 * cfg.TEST_SIZE) \div 224),
                        Op("CenterCrop", cfg.TEST_SIZE) >>
                ELSE << Op("Resize", cfg.TEST_SIZE),
                        Op("CenterCrop", cfg.TEST_SIZE) >>
             ELSE <<>>) \o tail]

----------------------------------------------------------------------------
(* Datasets *)

NoDataset ==
    [kind |-> "None", root |-> <<>>, split |-> "", ann_file |-> "",
     prefix |-> "", cache_mode |-> "", image_dir |-> <<>>,
     label_dir |-> <<>>, transform |-> <<>>, image_filenames |-> <<>>,
     length |-> 0]

\* mutant: '.png' is forgotten
IsImageName_JpgOnly(f) == EndsWith(f, "jpg")

IsImageName(f) == EndsWith(f, "jpg") \/ EndsWith(f, "png")

\* CustomDataset.__init__
CustomDataset(image_dir, label_dir, transform, f) ==
    IF ~DirExists(f, image_dir)
    THEN [error |-> "FileNotFoundError", dataset |-> NoDataset]
    ELSE LET names == SelectSeq(ListDir(f, image_dir), IsImageName) IN
         [error |-> "",
          dataset |-> [NoDataset EXCEPT
                         !.kind = "CustomDataset",
                         !.image_dir = image_dir,
                         !.label_dir = label_dir,
                         !.transform = transform,
                         !.image_filenames = names,
                         !.length = Len(names)]]

\* CustomDataset.__len__, and len() of the external datasets
DatasetLen(d) ==
    IF d.kind = "CustomDataset" THEN Len(d.image_filenames) ELSE d.length

IsImagesOrLabels(d) == d = <<"images">> \/ d = <<"labels">>

\* the loop that fills dir_list in build_dataset
DirList(f, path) ==
    LET found == SelectSeq(ListDir(f, path), IsImagesOrLabels)
    IN  [i \in 1..Len(found) |-> Join(path, found[i])]

\* dir_list[1] is the image directory, dir_list[0] the label directory
ImageDirOf(dir_list) == dir_list[2]

LabelDirOf(dir_list) == dir_list[1]

\* the Compose of the custom dataset
CustomTransform ==
    << Op("Resize", 96), Op("CenterCrop", 96), Op("ToTensor", 0), Op("Normalize", 0) >>

Raised(err, built) ==
    [error |-> err, dataset |-> NoDataset, nb_classes |-> 0, built |-> built]

\* mutant: the final else returns (None, 0) in place of raising
Unsupported_Silent == Raised("", {})

\* raise NotImplementedError("We only support ImageNet and CIFAR-100 now.")
Unsupported == Raised("NotImplementedError", {})

build_dataset(is_train, cfg, f, e) ==
    IF cfg.DATASET = "imagenet" THEN
        LET t == build_transform(is_train, cfg)
            prefix == IF is_train THEN "train" ELSE "val"
        IN
        IF t.error # "" THEN Raised(t.error, {})
        ELSE
          [error |-> "",
           dataset |->
             IF cfg.ZIP_MODE
             THEN [NoDataset EXCEPT
                     !.kind = "CachedImageFolder",
                     !.root = cfg.DATA_PATH,
                     !.ann_file = prefix \o "_map.txt",
                     !.prefix = prefix \o ".zip@/",
                     !.cache_mode = IF is_train THEN cfg.CACHE_MODE ELSE "part",
                     !.transform = t.transform,
                     !.length = IF is_train THEN e.train ELSE e.val]
             ELSE [NoDataset EXCEPT
                     !.kind = "ImageNet",
                     !.root = cfg.DATA_PATH,
                     !.split = prefix,
                     !.transform = t.transform,
                     !.length = IF is_train THEN e.train ELSE e.val],
           nb_classes |-> 1000,
           built |-> {"transform", "dataset"}]
    ELSE IF cfg.DATASET = "cf100" THEN
        [error |-> "",
         dataset |-> [NoDataset EXCEPT
                        !.kind = "CIFAR100",
                        !.root = cfg.DATA_PATH,
                        !.split = IF is_train THEN "train" ELSE "test",
                        !.transform =
                            (IF is_train
                             THEN << Op("RandomCrop", 32),
                                     Op("RandomHorizontalFlip", 0) >>
                             ELSE <<>>)
                            \o << Op("ToTensor", 0), Op("Normalize", 0) >>,
                        !.length = IF is_train THEN e.train ELSE e.val],
         nb_classes |-> 100,
         built |-> {"transform", "dataset"}]
    ELSE IF cfg.DATASET = "custom" THEN
        LET transform == CustomTransform
            path == Join(cfg.DATA_PATH,
                         IF is_train THEN <<"train">> ELSE <<"valid">>)
        IN
        IF ~DirExists(f, path) THEN Raised("FileNotFoundError", {"transform"})
        ELSE
          LET dir_list == DirList(f, path) IN
          IF Len(dir_list) < 2 THEN Raised("IndexError", {"transform"})
          ELSE
            LET c == CustomDataset(ImageDirOf(dir_list), LabelDirOf(dir_list),
                                   transform, f)
            IN  IF c.error # "" THEN Raised(c.error, {"transform"})
                ELSE [error |-> "", dataset |-> c.dataset, nb_classes |-> 8,
                      built |-> {"transform", "dataset"}]
    ELSE Unsupported

----------------------------------------------------------------------------
(* build_loader *)

NoSampler == [kind |-> "None", indices |-> <<>>, num_replicas |-> 0, rank |-> 0]

NoMixup ==
    [none |-> TRUE, mixup_alpha |-> 0, cutmix_alpha |-> 0,
     cutmix_minmax |-> NoneVal, num_classes |-> 0]

NoLoader == [none |-> TRUE, sampler |-> NoSampler, drop_last |-> FALSE]

NoLocals ==
    [dataset_train |-> NoDataset, dataset_val |-> NoDataset,
     sampler_train |-> NoSampler, sampler_val |-> NoSampler,
     data_loader_train |-> NoLoader, data_loader_val |-> NoLoader,
     mixup_fn |-> NoMixup, error |-> ""]

NoCall ==
    [fn |-> "", is_train |-> FALSE, error |-> "", dataset |-> NoDataset,
     nb_classes |-> 0, built |-> {}, transform |-> <<>>]

\* np.arange(dist.get_rank(), len(dataset), dist.get_world_size())
RankIndices(rank, length, world_size) == Arange(rank, length, world_size)

SubsetRandomSampler(indices) ==
    [kind |-> "SubsetRandomSampler", indices |-> indices,
     num_replicas |-> 0, rank |-> 0]

DistributedSampler(num_replicas, rank) ==
    [kind |-> "DistributedSampler", indices |-> <<>>,
     num_replicas |-> num_replicas, rank |-> rank]

\* the sampler of the training set
TrainSampler(cfg, d, dataset_train) ==
    IF cfg.ZIP_MODE /\ cfg.CACHE_MODE = "part"
    THEN SubsetRandomSampler(
             RankIndices(d.rank, DatasetLen(dataset_train), d.world_size))
    ELSE DistributedSampler(d.world_size, d.rank)

\* the sampler of the validation set
ValSampler(d, dataset_val) ==
    IF dataset_val.kind = "None" THEN NoSampler
    ELSE SubsetRandomSampler(
             RankIndices(d.rank, DatasetLen(dataset_val), d.world_size))

\* mutant: CUTMIX_MINMAX is not looked at
mixup_active_NoMinmax(cfg) == cfg.MIXUP > 0 \/ cfg.CUTMIX > 0

mixup_active(cfg) ==
    cfg.MIXUP > 0 \/ cfg.CUTMIX > 0 \/ ~cfg.CUTMIX_MINMAX.none

\* mixup_fn: None, or Mixup(..., num_classes=config.MODEL.NUM_CLASSES)
MixupFn(cfg) ==
    IF mixup_active(cfg)
    THEN [none |-> FALSE, mixup_alpha |-> cfg.MIXUP, cutmix_alpha |-> cfg.CUTMIX,
          cutmix_minmax |-> cfg.CUTMIX_MINMAX, num_classes |-> cfg.NUM_CLASSES]
    ELSE NoMixup

\* mutant: the class count is dropped (dataset_train, _ = ...)
StoreNumClasses_Dropped(cfg, nb_classes) == cfg

\* config.MODEL.NUM_CLASSES = nb_classes
StoreNumClasses(cfg, nb_classes) == [cfg EXCEPT !.NUM_CLASSES = nb_classes]

\* config.defrost()
BL_Defrost ==
    /\ pc = "idle"
    /\ config' = [config EXCEPT !.frozen = FALSE]
    /\ call' = NoCall
    /\ pc' = "line78"
    /\ UNCHANGED <<fs, ext, dist, loader, ds, item>>

\* dataset_train, config.MODEL.NUM_CLASSES = build_dataset(is_train=True, ...)
\* (assigning to a frozen yacs node raises AttributeError)
BL_BuildTrain ==
    /\ pc = "line78"
    /\ LET r == build_dataset(TRUE, config, fs, ext) IN
       IF r.error # "" THEN
            /\ loader' = [loader EXCEPT !.error = r.error]
            /\ pc' = "raised"
            /\ UNCHANGED config
       ELSE IF config.frozen THEN
            /\ loader' = [loader EXCEPT !.dataset_train = r.dataset,
                                        !.error = "AttributeError"]
            /\ pc' = "raised"
            /\ UNCHANGED config
       ELSE
            /\ loader' = [loader EXCEPT !.dataset_train = r.dataset]
            /\ config' = StoreNumClasses(config, r.nb_classes)
            /\ pc' = "line79"
    /\ UNCHANGED <<fs, ext, dist, call, ds, item>>

\* config.freeze()
BL_Freeze ==
    /\ pc = "line79"
    /\ config' = [config EXCEPT !.frozen = TRUE]
    /\ pc' = "line81"
    /\ UNCHANGED <<fs, ext, dist, call, loader, ds, item>>

\* dataset_val, _ = build_dataset(is_train=False, ...)
BL_BuildVal ==
    /\ pc = "line81"
    /\ LET r == build_dataset(FALSE, config, fs, ext) IN
       IF r.error # "" THEN
            /\ loader' = [loader EXCEPT !.error = r.error]
            /\ pc' = "raised"
       ELSE
            /\ loader' = [loader EXCEPT !.dataset_val = r.dataset]
            /\ pc' = "line84"
    /\ UNCHANGED <<config, fs, ext, dist, call, ds, item>>

\* the two samplers
BL_Samplers ==
    /\ pc = "line84"
    /\ loader' = [loader EXCEPT
                    !.sampler_train = TrainSampler(config, dist, loader.dataset_train),
                    !.sampler_val = ValSampler(dist, loader.dataset_val)]
    /\ pc' = "line104"
    /\ UNCHANGED <<config, fs, ext, dist, call, ds, item>>

\* the two DataLoaders, mixup_fn and the return
BL_Return ==
    /\ pc = "line104"
    /\ loader' = [loader EXCEPT
                    !.data_loader_train =
                        [none |-> FALSE, sampler |-> loader.sampler_train,
                         drop_last |-> TRUE],
                    !.data_loader_val =
                        IF loader.dataset_val.kind = "None" THEN NoLoader
                        ELSE [none |-> FALSE, sampler |-> loader.sampler_val,
                              drop_last |-> FALSE],
                    !.mixup_fn = MixupFn(config)]
    /\ pc' = "done"
    /\ UNCHANGED <<config, fs, ext, dist, call, ds, item>>

\* build_dataset called on its own
CallBuildDataset ==
    /\ pc = "idle"
    /\ \E is_train \in BOOLEAN :
         LET r == build_dataset(is_train, config, fs, ext) IN
         call' = [fn |-> "build_dataset", is_train |-> is_train,
                  error |-> r.error, dataset |-> r.dataset,
                  nb_classes |-> r.nb_classes, built |-> r.built,
                  transform |-> r.dataset.transform]
    /\ UNCHANGED <<config, fs, ext, dist, pc, loader, ds, item>>

\* build_transform called on its own
CallBuildTransform ==
    /\ pc = "idle"
    /\ \E is_train \in BOOLEAN :
         LET r == build_transform(is_train, config) IN
         call' = [NoCall EXCEPT !.fn = "build_transform", !.is_train = is_train,
                                !.error = r.error, !.transform = r.transform,
                                !.built = IF r.error = "" THEN {"transform"} ELSE {}]
    /\ UNCHANGED <<config, fs, ext, dist, pc, loader, ds, item>>

----------------------------------------------------------------------------
(* CustomDataset.__getitem__ *)

\* a field of a label line: a number v/Denom, or text float() rejects
Num(v) == [num |-> TRUE, v |-> v]

NotANumber == [num |-> FALSE, v |-> 0]

File(dir, name) == [dir |-> dir, name |-> name]

FileExists(f, file) == file \in DOMAIN f.files

\* an image file of w x h pixels; a label file holding the given lines
ImageFile(w, h) == [w |-> w, h |-> h, lines |-> <<>>]

LabelFile(lines) == [w |-> 0, h |-> 0, lines |-> lines]

\* mutant: floor in place of truncation
IntTrunc_Floor(n, d) == n \div d

\* int(n / d) for d > 0: truncation toward zero
IntTrunc(n, d) == IF n >= 0 THEN n \div d ELSE -((-n) \div d)

\* self.image_filenames[idx]: the position of idx in the list, 0 when out of range
ListIndex(idx, n) ==
    IF idx >= 0 /\ idx < n THEN idx + 1
    ELSE IF idx < 0 /\ idx >= -n THEN n + idx + 1
    ELSE 0

\* os.path.splitext(image_filename)[0] + '.txt'
LabelName(image_filename) == Append(SplitextStem(image_filename), "txt")

\* mutant: the last line is read in place of the first
FirstLineFields_Last(content) ==
    IF content.lines = <<>> THEN <<>> ELSE content.lines[Len(content.lines)]

\* f.readline().strip().split(): the fields of the first line
FirstLineFields(content) ==
    IF content.lines = <<>> THEN <<>> ELSE content.lines[1]

\* class_id, cx, cy, bw, bh = map(float, fields) succeeds
Parses(fields) == Len(fields) = 5 /\ \A i \in 1..5 : fields[i].num

\* (x1, y1, x2, y2) of a label (cx, cy, bw, bh), in units of 1/Denom, on a
\* width x height image: int(cx*width - bw*width/2) and so on.  The code
\* computes in binary floating point; the quotients here are exact, which is
\* what the floats give for the values k/8 and the image sizes used below.
CropBox(cx, cy, bw, bh, width, height) ==
    << IntTrunc(2 * cx * width - bw * width, 2 * Denom),
       IntTrunc(2 * cy * height - bh * height, 2 * Denom),
       IntTrunc(2 * cx * width + bw * width, 2 * Denom),
       IntTrunc(2 * cy * height + bh * height, 2 * Denom) >>

NoItem ==
    [called |-> FALSE, idx |-> 0, error |-> "", image |-> <<>>,
     label |-> <<>>, size |-> <<0, 0>>, fields |-> <<>>,
     box |-> <<0, 0, 0, 0>>, class_id |-> 0, transformed |-> FALSE]

getitem(d, idx, f) ==
    LET base == [NoItem EXCEPT !.called = TRUE, !.idx = idx]
        pos == ListIndex(idx, Len(d.image_filenames))
    IN
    IF pos = 0 THEN [base EXCEPT !.error = "IndexError"]
    ELSE
      LET image_filename == d.image_filenames[pos]
          image_path == File(d.image_dir, image_filename)
          label_path == File(d.label_dir, LabelName(image_filename))
          named == [base EXCEPT !.image = image_filename,
                                !.label = label_path.name]
      IN
      IF ~FileExists(f, image_path) THEN [named EXCEPT !.error = "FileNotFoundError"]
      ELSE IF f.files[image_path].w = 0
           THEN [named EXCEPT !.error = "UnidentifiedImageError"]
      ELSE IF ~FileExists(f, label_path)
           THEN [named EXCEPT !.error = "FileNotFoundError"]
      ELSE
        LET image == f.files[image_path]
            fields == FirstLineFields(f.files[label_path])
        IN
        IF ~Parses(fields) THEN [named EXCEPT !.error = "ValueError"]
        ELSE [named EXCEPT
                !.size = <<image.w, image.h>>,
                !.fields = fields,
                !.class_id = IntTrunc(fields[1].v, Denom),
                !.box = CropBox(fields[2].v, fields[3].v, fields[4].v,
                                fields[5].v, image.w, image.h),
                !.transformed = (d.transform # <<>>)]

DataPath == << <<"data">> >>

SplitPath(s) == Join(DataPath, <<s>>)

ImagesDir(s) == Join(SplitPath(s), <<"images">>)

LabelsDir(s) == Join(SplitPath(s), <<"labels">>)

\* CustomDataset(image_dir, label_dir, transform) called on its own
Construct ==
    /\ ds.kind = "None"
    /\ \E s \in {"train", "valid"} :
         LET c == CustomDataset(ImagesDir(s), LabelsDir(s), CustomTransform, fs)
         IN  /\ c.error = ""
             /\ ds' = c.dataset
    /\ UNCHANGED <<config, fs, ext, dist, pc, call, loader, item>>

\* dataset[idx]
GetItem ==
    /\ ds.kind = "CustomDataset"
    /\ \E idx \in (-(Len(ds.image_filenames) + 1))..Len(ds.image_filenames) :
         item' = getitem(ds, idx, fs)
    /\ UNCHANGED <<config, fs, ext, dist, pc, call, loader, ds>>

----------------------------------------------------------------------------
(* Inputs: configurations, directory trees, label files *)

Str_bogus == <<"b", "o", "g", "u", "s">>

Presets ==
    { NoneVal, Some(Str_raug15), Some(<<" ">> \o Str_weak \o <<" ", "\n">>),
      Some(Str_none), Some(Str_bogus), Some(<<"w", "e", " ", "a", "k">>),
      Some(<<>>) }

Datasets == {"imagenet", "cf100", "custom", "cifar10", "ImageNet"}

CacheModes == {"part", "no", "full"}

BaseConfig ==
    [DATASET |-> "imagenet", DATA_PATH |-> DataPath, ZIP_MODE |-> FALSE,
     CACHE_MODE |-> "part", IMG_SIZE |-> 224, TEST_SIZE |-> 224,
     TEST_CROP |-> TRUE, PRESET |-> NoneVal, MIXUP |-> 0, CUTMIX |-> 0,
     CUTMIX_MINMAX |-> NoneVal, NUM_CLASSES |-> 1000, frozen |-> TRUE]

\* the sequences without repetition of at most n elements of S
Arrangements(S, n) ==
    UNION { { s \in [1..k -> S] : \A i, j \in 1..k : i # j => s[i] # s[j] }
            : k \in 0..n }

NoDirs == [p \in {} |-> <<>>]

\* the directories of one split: the split itself, when listing is not None,
\* and those of 'images' and 'labels' that its listing holds
SplitDirs(s, listing, images, labels) ==
    IF listing.none THEN NoDirs
    ELSE (SplitPath(s) :> listing.val)
         @@ (IF <<"images">> \in Range(listing.val)
             THEN ImagesDir(s) :> images ELSE NoDirs)
         @@ (IF <<"labels">> \in Range(listing.val)
             THEN LabelsDir(s) :> labels ELSE NoDirs)

\* class_id cx cy bw bh, the last four in units of 1/Denom
LabelLine(class_id, cx, cy, bw, bh) ==
    << class_id, Num(cx), Num(cy), Num(bw), Num(bh) >>

HalfLine == LabelLine(Num(0), Denom \div 2, Denom \div 2, Denom \div 2, Denom \div 2)

\* the well-formed tree: 'labels' listed before 'images', one label per image
GoodListing == Some(<< <<"labels">>, <<"images">> >>)

GoodTrainImages == << <<"a", "jpg">>, <<"b", "png">>, <<"notes", "txt">> >>

GoodTrainLabels == << <<"a", "txt">>, <<"b", "txt">> >>

GoodValidImages == << <<"c", "jpg">> >>

GoodValidLabels == << <<"c", "txt">> >>

GoodTrainFiles ==
    (File(ImagesDir("train"), <<"a", "jpg">>) :> ImageFile(100, 100))
    @@ (File(ImagesDir("train"), <<"b", "png">>) :> ImageFile(5, 7))
    @@ (File(ImagesDir("train"), <<"notes", "txt">>) :> LabelFile(<<>>))
    @@ (File(LabelsDir("train"), <<"a", "txt">>) :> LabelFile(<<HalfLine>>))
    @@ (File(LabelsDir("train"), <<"b", "txt">>) :> LabelFile(<<HalfLine>>))

GoodValidFiles ==
    (File(ImagesDir("valid"), <<"c", "jpg">>) :> ImageFile(100, 100))
    @@ (File(LabelsDir("valid"), <<"c", "txt">>) :> LabelFile(<<HalfLine>>))

\* a tree whose two splits have the given listings and the well-formed contents
TreeFs(train, valid) ==
    [dirs |-> SplitDirs("train", train, GoodTrainImages, GoodTrainLabels)
              @@ SplitDirs("valid", valid, GoodValidImages, GoodValidLabels),
     files |-> GoodTrainFiles @@ GoodValidFiles]

GoodFs == TreeFs(GoodListing, GoodListing)

SplitEntries == { <<"images">>, <<"labels">>, <<"notes", "txt">> }

\* what os.listdir of a split directory can return; None: no such directory
Listings == {NoneVal} \cup { Some(l) : l \in Arrangements(SplitEntries, 3) }

Input(cfg, f, e, d) == [config |-> cfg, fs |-> f, ext |-> e, dist |-> d]

OneRank == [rank |-> 0, world_size |-> 1]

SomeLens == [train |-> 2, val |-> 1]

\* every dataset name with every preset and transform option
DatasetInputs ==
    { Input([BaseConfig EXCEPT !.DATASET = d, !.PRESET = p, !.IMG_SIZE = sz,
                               !.TEST_CROP = crop, !.ZIP_MODE = zip],
            GoodFs, SomeLens, OneRank)
      : d \in Datasets, p \in Presets, sz \in {32, 224},
        crop \in BOOLEAN, zip \in BOOLEAN }

\* the custom dataset over every listing of its two split directories
ListingInputs ==
    { Input([BaseConfig EXCEPT !.DATASET = "custom"], TreeFs(t, v), SomeLens, OneRank)
      : t \in Listings, v \in Listings }

\* every rank of every world size over every pair of dataset lengths
SamplerInputs ==
    { Input([BaseConfig EXCEPT !.DATASET = d, !.ZIP_MODE = zip, !.CACHE_MODE = cm],
            GoodFs, [train |-> lt, val |-> lv], [rank |-> r, world_size |-> n])
      : d \in {"imagenet", "cf100", "custom"}, zip \in BOOLEAN, cm \in CacheModes,
        lt \in 0..MaxLen, lv \in 0..MaxLen,
        n \in 1..MaxWorld, r \in 0..(MaxWorld - 1) }

\* every mixup / cutmix setting with every dataset name
MixupInputs ==
    { Input([BaseConfig EXCEPT !.DATASET = d, !.MIXUP = m, !.CUTMIX = c,
                               !.CUTMIX_MINMAX = mm, !.NUM_CLASSES = nc],
            GoodFs, SomeLens, OneRank)
      : d \in Datasets, m \in {0, 8}, c \in {0, 10},
        mm \in {NoneVal, Some(<<2, 8>>)}, nc \in {1000, 2} }

Inputs ==
    DatasetInputs \cup ListingInputs \cup MixupInputs
    \cup { i \in SamplerInputs : i.dist.rank < i.dist.world_size }

Init ==
    /\ \E i \in Inputs :
         /\ config = i.config
         /\ fs = i.fs
         /\ ext = i.ext
         /\ dist = i.dist
    /\ pc = "idle"
    /\ call = NoCall
    /\ loader = NoLocals
    /\ ds = NoDataset
    /\ item = NoItem

Next ==
    \/ BL_Defrost
    \/ BL_BuildTrain
    \/ BL_Freeze
    \/ BL_BuildVal
    \/ BL_Samplers
    \/ BL_Return
    \/ CallBuildDataset
    \/ CallBuildTransform

Spec == Init /\ [][Next]_vars

----------------------------------------------------------------------------
(* CustomDataset on its own: directories of image files, label files *)

MaxFiles == 3       \* entries of the image directory

NamePool ==
    { <<"a", "jpg">>, <<"b", "png">>, <<"c", "JPG">>, <<"d", "txt">>,
      <<"e", "tar", "jpg">>, <<"", "png">> }

\* the label directory that holds one label file for every name of NamePool
PoolLabels ==
    << <<"a", "txt">>, <<"b", "txt">>, <<"c", "txt">>, <<"d", "txt">>,
       <<"e", "tar", "txt">>, <<"", "png", "txt">> >>

PoolFiles ==
    [ file \in { File(ImagesDir("train"), n) : n \in NamePool }
              \cup { File(LabelsDir("train"), PoolLabels[i]) : i \in 1..Len(PoolLabels) }
      |-> IF file.dir = ImagesDir("train")
          THEN (IF file.name[Len(file.name)] = "txt"
                THEN LabelFile(<<>>) ELSE ImageFile(100, 100))
          ELSE LabelFile(<<HalfLine>>) ]

\* the train split with the given listing of its image directory
ListedFs(images) ==
    [dirs |-> SplitDirs("train", GoodListing, images, PoolLabels)
              @@ SplitDirs("valid", GoodListing, GoodValidImages, GoodValidLabels),
     files |-> [ file \in { g \in DOMAIN PoolFiles :
                              g.dir = ImagesDir("train") => g.name \in Range(images) }
                 |-> PoolFiles[file] ]
               @@ GoodValidFiles]

LabelVals == {0, 1, Denom \div 2, Denom - 1, Denom}

ClassIds == { Num(7 * Denom), Num(Denom + Denom \div 2) }

ImageSizes == { <<100, 100>>, <<5, 7>>, <<3, 2>> }

GoodLines ==
    { LabelLine(c, cx, cy, bw, bh)
      : c \in ClassIds, cx \in LabelVals, cy \in LabelVals,
        bw \in LabelVals, bh \in LabelVals }

OtherLine == LabelLine(Num(3 * Denom), Denom, 0, 1, 1)

\* label files that are not one well-formed line; None: no label file
OddLabels ==
    { NoneVal,
      Some(LabelFile(<<>>)),
      Some(LabelFile(<< <<>> >>)),
      Some(LabelFile(<< <<>>, HalfLine >>)),
      Some(LabelFile(<< SubSeq(HalfLine, 1, 4) >>)),
      Some(LabelFile(<< Append(HalfLine, Num(0)) >>)),
      Some(LabelFile(<< [HalfLine EXCEPT ![3] = NotANumber] >>)),
      Some(LabelFile(<< [HalfLine EXCEPT ![1] = NotANumber] >>)),
      Some(LabelFile(<< HalfLine, OtherLine >>)),
      Some(LabelFile(<< HalfLine, <<NotANumber>> >>)),
      Some(LabelFile(<< HalfLine, <<>> >>)) }

\* the train split holding the one image a.jpg of the given size and label
LabelledFs(size, label) ==
    [dirs |-> SplitDirs("train", GoodListing, << <<"a", "jpg">> >>,
                        IF label.none THEN <<>> ELSE << <<"a", "txt">> >>)
              @@ SplitDirs("valid", GoodListing, GoodValidImages, GoodValidLabels),
     files |-> (IF label.none THEN [p \in {} |-> LabelFile(<<>>)]
                ELSE File(LabelsDir("train"), <<"a", "txt">>) :> label.val)
               @@ (File(ImagesDir("train"), <<"a", "jpg">>)
                     :> ImageFile(size[1], size[2]))
               @@ GoodValidFiles]

CustomFileSystems ==
    { ListedFs(l) : l \in Arrangements(NamePool, MaxFiles) }
    \cup { LabelledFs(sz, Some(LabelFile(<<l>>))) : sz \in ImageSizes, l \in GoodLines }
    \cup { LabelledFs(sz, lab) : sz \in ImageSizes, lab \in OddLabels }

InitCustom ==
    /\ fs \in CustomFileSystems
    /\ config = [BaseConfig EXCEPT !.DATASET = "custom"]
    /\ ext = SomeLens
    /\ dist = OneRank
    /\ pc = "idle"
    /\ call = NoCall
    /\ loader = NoLocals
    /\ ds = NoDataset
    /\ item = NoItem

NextCustom ==
    \/ Construct
    \/ GetItem

SpecCustom == InitCustom /\ [][NextCustom]_vars

----------------------------------------------------------------------------
(* Properties of build_dataset, build_transform and build_loader (Spec) *)

KnownDataset == config.DATASET \in {"imagenet", "cf100", "custom"}

\* the class count the three dataset names stand for
ClassCount(name) ==
    CASE name = "imagenet" -> 1000
      [] name = "cf100" -> 100
      [] name = "custom" -> 8

\* build_loader got past the statement at line 78
TrainBuilt == pc \in {"line79", "line81", "line84", "line104", "done"}

\* C1: whenever build_dataset returns, for is_train True and False, the class
\* count it returns is 1000 for 'imagenet', 100 for 'cf100' and 8 for
\* 'custom'; and once build_loader has built the training dataset,
\* config.MODEL.NUM_CLASSES holds the class count of that dataset.
C1_ClassCounts ==
    /\ (call.fn = "build_dataset" /\ call.error = "") =>
          /\ KnownDataset
          /\ call.nb_classes = ClassCount(config.DATASET)
    /\ (call.fn = "build_dataset" /\ config.DATASET = "cf100") => call.error = ""
    /\ (TrainBuilt \/ (pc = "raised" /\ loader.dataset_train.kind # "None")) =>
          /\ KnownDataset
          /\ config.NUM_CLASSES = ClassCount(config.DATASET)

C1_Witness ==
    /\ pc = "done"
    /\ config.DATASET = "custom"
    /\ loader.dataset_train.kind = "CustomDataset"
    /\ config.NUM_CLASSES = 8

\* C2: for a dataset name other than 'imagenet', 'cf100' and 'custom',
\* build_dataset raises NotImplementedError for both is_train values, having
\* built no transform and no dataset, and build_loader ends with the same
\* error at its first build_dataset call, with no dataset, sampler, loader or
\* mixup callable.
C2_UnknownDatasetRaises ==
    ~KnownDataset =>
        /\ call.fn = "build_dataset" =>
              /\ call.error = "NotImplementedError"
              /\ call.built = {}
              /\ call.dataset = NoDataset
        /\ pc \notin {"idle", "line78"} =>
              /\ pc = "raised"
              /\ loader = [NoLocals EXCEPT !.error = "NotImplementedError"]

C2_Witness ==
    /\ ~KnownDataset
    /\ pc = "raised"
    /\ loader.error = "NotImplementedError"
    /\ loader.data_loader_train.none

\* s is t with whitespace before and after it
Padded(s, t) ==
    \E i \in 1..(Len(s) + 1) :
        /\ i + Len(t) - 1 <= Len(s)
        /\ SubSeq(s, i, i + Len(t) - 1) = t
        /\ \A k \in 1..Len(s) :
              (k < i \/ k > i + Len(t) - 1) => s[k] \in {" ", "\t", "\n"}

\* config.AUG.PRESET is neither None nor, stripped, 'raug15', 'weak' or 'none'
UnrecognizedPreset ==
    /\ ~config.PRESET.none
    /\ ~Padded(config.PRESET.val, <<"r", "a", "u", "g", "1", "5">>)
    /\ ~Padded(config.PRESET.val, <<"w", "e", "a", "k">>)
    /\ ~Padded(config.PRESET.val, <<"n", "o", "n", "e">>)

\* C3 as claimed: with an unrecognized preset, building the transform or the
\* dataset raises ValueError whatever the dataset name and whatever is_train.
C3_AsClaimed ==
    (UnrecognizedPreset /\ call.fn \in {"build_transform", "build_dataset"}) =>
        call.error = "ValueError"

\* C3, amended: with an unrecognized preset, build_transform raises ValueError
\* exactly when is_train, build_dataset raises ValueError exactly when is_train
\* and the dataset is 'imagenet', and build_loader on 'imagenet' ends with
\* ValueError at the training build; a recognized preset or None never raises
\* ValueError.
C3_UnrecognizedPresetRaises ==
    /\ (UnrecognizedPreset /\ call.fn = "build_transform") =>
          (call.error = "ValueError" <=> call.is_train)
    /\ (UnrecognizedPreset /\ call.fn = "build_dataset") =>
          (call.error = "ValueError" <=>
              (call.is_train /\ config.DATASET = "imagenet"))
    /\ (UnrecognizedPreset /\ config.DATASET = "imagenet"
          /\ pc \notin {"idle", "line78"}) =>
          (pc = "raised" /\ loader.error = "ValueError")
    /\ (~UnrecognizedPreset /\ call.fn # "") => call.error # "ValueError"

C3_Witness ==
    /\ UnrecognizedPreset
    /\ call.fn = "build_dataset"
    /\ call.is_train
    /\ config.DATASET = "imagenet"
    /\ call.error = "ValueError"

\* the split directory build_dataset reads for is_train
SplitOf(is_train) == IF is_train THEN "train" ELSE "valid"

\* C6 as claimed: for the 'custom' dataset, whenever the split directory
\* lists both 'images' and 'labels', in any order and among any other
\* entries, build_dataset returns a dataset that reads images from
\* <DATA_PATH>/<split>/images and labels from <DATA_PATH>/<split>/labels.
C6_AsClaimed ==
    (/\ call.fn = "build_dataset"
     /\ config.DATASET = "custom"
     /\ SplitPath(SplitOf(call.is_train)) \in DOMAIN fs.dirs
     /\ {<<"images">>, <<"labels">>}
            \subseteq Range(fs.dirs[SplitPath(SplitOf(call.is_train))]))
    => /\ call.error = ""
       /\ call.dataset.image_dir = ImagesDir(SplitOf(call.is_train))
       /\ call.dataset.label_dir = LabelsDir(SplitOf(call.is_train))

\* the index sets of all ranks partition 0..length-1
Partition(length, world_size) ==
    /\ \A r \in 0..(world_size - 1) :
          LET idx == RankIndices(r, length, world_size)
          IN  /\ Cardinality(Range(idx)) = Len(idx)
              /\ Range(idx) = { i \in 0..(length - 1) : i % world_size = r }
    /\ \A r1, r2 \in 0..(world_size - 1) :
          r1 # r2 => Range(RankIndices(r1, length, world_size))
                       \cap Range(RankIndices(r2, length, world_size)) = {}
    /\ UNION { Range(RankIndices(r, length, world_size)) : r \in 0..(world_size - 1) }
          = 0..(length - 1)

\* C8: once build_loader has made its samplers, the validation indices of
\* this rank are rank, rank+N, ... below L, and over the ranks 0..N-1 these
\* index sets are pairwise disjoint with union 0..L-1; the same holds of the
\* training indices when ZIP_MODE is on and CACHE_MODE is 'part'.
C8_RankIndicesPartition ==
    pc \in {"line104", "done"} =>
        LET n == dist.world_size
            lv == DatasetLen(loader.dataset_val)
            lt == DatasetLen(loader.dataset_train)
        IN
        /\ loader.sampler_val.kind = "SubsetRandomSampler"
        /\ Range(loader.sampler_val.indices)
              = { i \in 0..(lv - 1) : i % n = dist.rank }
        /\ loader.sampler_val.indices = RankIndices(dist.rank, lv, n)
        /\ Partition(lv, n)
        /\ (config.ZIP_MODE /\ config.CACHE_MODE = "part") =>
              /\ loader.sampler_train.kind = "SubsetRandomSampler"
              /\ Range(loader.sampler_train.indices)
                    = { i \in 0..(lt - 1) : i % n = dist.rank }
              /\ loader.sampler_train.indices = RankIndices(dist.rank, lt, n)
              /\ Partition(lt, n)

C8_Witness ==
    /\ pc = "done"
    /\ dist.world_size = 2
    /\ dist.rank = 1
    /\ DatasetLen(loader.dataset_val) = 3
    /\ loader.sampler_val.indices = <<1>>
    /\ loader.sampler_train.kind = "SubsetRandomSampler"
    /\ loader.sampler_train.indices # <<>>

\* C9 as claimed: whenever build_loader has finished, by returning or by an
\* error raised while a dataset is built, config is frozen; and config is
\* unfrozen only between config.defrost() and config.freeze().
C9_AsClaimed ==
    /\ pc \in {"done", "raised"} => config.frozen
    /\ ~config.frozen => pc \in {"line78", "line79"}

\* C10: build_loader returns a mixup callable exactly when MIXUP > 0 or
\* CUTMIX > 0 or CUTMIX_MINMAX is not None, and None otherwise; the callable
\* is built with the class count of the configured dataset.
C10_MixupWhenActive ==
    /\ pc = "done" =>
          /\ ~loader.mixup_fn.none <=>
                (config.MIXUP > 0 \/ config.CUTMIX > 0 \/ ~config.CUTMIX_MINMAX.none)
          /\ ~loader.mixup_fn.none =>
                /\ KnownDataset
                /\ loader.mixup_fn.num_classes = ClassCount(config.DATASET)
                /\ loader.mixup_fn.mixup_alpha = config.MIXUP
                /\ loader.mixup_fn.cutmix_alpha = config.CUTMIX
                /\ loader.mixup_fn.cutmix_minmax = config.CUTMIX_MINMAX
    /\ pc # "done" => loader.mixup_fn.none

C10_Witness ==
    /\ pc = "done"
    /\ config.MIXUP = 0
    /\ config.CUTMIX = 0
    /\ ~config.CUTMIX_MINMAX.none
    /\ config.DATASET = "cf100"
    /\ ~loader.mixup_fn.none
    /\ loader.mixup_fn.num_classes = 100

----------------------------------------------------------------------------
(* Properties of CustomDataset (SpecCustom) *)

\* the positions of a listing whose name ends in '.jpg' or '.png'
ImagePositions(listing) ==
    { i \in 1..Len(listing) :
        /\ Len(listing[i]) >= 2
        /\ listing[i][Len(listing[i])] \in {"jpg", "png"} }

\* the state of the dataset and of its latest item
LengthIsImageCount ==
    ds.kind = "CustomDataset" =>
        LET listing == fs.dirs[ds.image_dir]
            n == DatasetLen(ds)
        IN
        /\ n = Cardinality(ImagePositions(listing))
        /\ \A k \in 1..n :
              /\ \E i \in ImagePositions(listing) : listing[i] = ds.image_filenames[k]
              /\ \A j \in 1..n : j # k => ds.image_filenames[j] # ds.image_filenames[k]
        /\ (item.called /\ item.idx >= 0 /\ item.idx < n) =>
              /\ item.error # "IndexError"
              /\ item.image = ds.image_filenames[item.idx + 1]
              /\ (/\ File(ds.label_dir, item.label) \in DOMAIN fs.files
                  /\ fs.files[File(ds.label_dir, item.label)].lines = <<HalfLine>>)
                 => item.error = ""
        /\ (item.called /\ item.idx >= n) => item.error = "IndexError"

\* C4: the length of a CustomDataset is the number of entries of the image
\* directory listing whose name ends in '.jpg' or '.png'; every index
\* 0..len-1 denotes one of these entries, each exactly once, and
\* __getitem__ returns it as an item when its label file is one well-formed
\* line; an index from len on raises IndexError; and once constructed the
\* dataset, hence its length, never changes.
C4_LengthIsImageCount ==
    /\ []LengthIsImageCount
    /\ [][ds.kind = "CustomDataset" => ds' = ds]_vars

C4_Witness ==
    /\ ds.kind = "CustomDataset"
    /\ ds.image_dir = ImagesDir("train")
    /\ Len(fs.dirs[ds.image_dir]) = 3
    /\ DatasetLen(ds) = 2
    /\ item.called
    /\ item.idx = 1
    /\ item.error = ""

\* z is n/d truncated toward zero (d > 0)
IsTruncation(z, n, d) ==
    IF n >= 0 THEN z * d <= n /\ n < (z + 1) * d
    ELSE (z - 1) * d < n /\ n <= z * d

\* C5: for an image of W x H pixels and a label (cx, cy, bw, bh) in 0..1,
\* the item's crop box is (cx*W - bw*W/2, cy*H - bh*H/2, cx*W + bw*W/2,
\* cy*H + bh*H/2), each truncated toward zero; cx=cy=bw=bh=0.5 on 100x100
\* gives (25,25)-(75,75); and x1 <= x2, y1 <= y2.
C5_CropBox ==
    (item.called /\ item.error = "") =>
        LET w == item.size[1]
            h == item.size[2]
            cx == item.fields[2].v
            cy == item.fields[3].v
            bw == item.fields[4].v
            bh == item.fields[5].v
            d == 2 * Denom
        IN
        /\ IsTruncation(item.box[1], 2 * cx * w - bw * w, d)
        /\ IsTruncation(item.box[2], 2 * cy * h - bh * h, d)
        /\ IsTruncation(item.box[3], 2 * cx * w + bw * w, d)
        /\ IsTruncation(item.box[4], 2 * cy * h + bh * h, d)
        /\ (/\ w = 100 /\ h = 100
            /\ 2 * cx = Denom /\ 2 * cy = Denom /\ 2 * bw = Denom /\ 2 * bh = Denom)
           => item.box = <<25, 25, 75, 75>>
        /\ item.box[1] <= item.box[3]
        /\ item.box[2] <= item.box[4]

C5_Witness ==
    /\ item.called
    /\ item.error = ""
    /\ item.size = <<100, 100>>
    /\ item.fields[2].v * 2 = Denom
    /\ item.fields[4].v * 2 = Denom
    /\ item.box = <<25, 25, 75, 75>>

\* <image base filename>.txt
BaseTxt(name) ==
    IF \E i \in 1..(Len(name) - 1) : name[i] # ""
    THEN [name EXCEPT ![Len(name)] = "txt"]
    ELSE name \o <<"txt">>

\* the label file of the item's image, None when there is none
LabelOfItem ==
    IF File(ds.label_dir, BaseTxt(item.image)) \in DOMAIN fs.files
    THEN Some(fs.files[File(ds.label_dir, BaseTxt(item.image))])
    ELSE NoneVal

FiveNumbers(line) == Len(line) = 5 /\ \A i \in 1..5 : line[i].num

\* the item's image was opened: idx is in range and the image file is an image
ImageOpened ==
    /\ item.called
    /\ item.image # <<>>
    /\ File(ds.image_dir, item.image) \in DOMAIN fs.files
    /\ fs.files[File(ds.image_dir, item.image)].w > 0

\* C7 as claimed: the call raises when the label file does not exist, is
\* empty, has a first line that is not five numeric fields, or holds more
\* than one label line.
C7_AsClaimed ==
    (/\ ImageOpened
     /\ \/ LabelOfItem.none
        \/ LabelOfItem.val.lines = <<>>
        \/ ~FiveNumbers(LabelOfItem.val.lines[1])
        \/ Len(LabelOfItem.val.lines) > 1)
    => item.error # ""

\* C7, amended: __getitem__ takes its label from <label_dir>/<image base
\* filename>.txt; the call raises FileNotFoundError when that file does not
\* exist and ValueError when it is empty or its first line is not exactly
\* five numeric fields; otherwise it returns an item made from the first
\* line, also when the file holds further lines, which are never read.
C7_MalformedLabelRaises ==
    ImageOpened =>
        /\ item.label = BaseTxt(item.image)
        /\ LabelOfItem.none => item.error = "FileNotFoundError"
        /\ (~LabelOfItem.none /\ LabelOfItem.val.lines = <<>>) =>
              item.error = "ValueError"
        /\ (/\ ~LabelOfItem.none
            /\ LabelOfItem.val.lines # <<>>
            /\ ~FiveNumbers(LabelOfItem.val.lines[1])) =>
              item.error = "ValueError"
        /\ (/\ ~LabelOfItem.none
            /\ LabelOfItem.val.lines # <<>>
            /\ FiveNumbers(LabelOfItem.val.lines[1])) =>
              /\ item.error = ""
              /\ item.fields = LabelOfItem.val.lines[1]

C7_Witness ==
    /\ ImageOpened
    /\ ~LabelOfItem.none
    /\ Len(LabelOfItem.val.lines) = 2
    /\ ~FiveNumbers(LabelOfItem.val.lines[2])
    /\ item.error = ""

====
